---- MODULE Spec2Model ----
(***************************************************************************)
(* Model of whack's main.py: tool selection (filterCommands), the          *)
(* sequential tool loop with its Spinner thread, the per-tool output       *)
(* cleaning, and the results list.  Text is modelled as TLA+ strings, and  *)
(* the Python string methods the script uses are operators over them.      *)
(***************************************************************************)
EXTENDS Integers, Sequences, FiniteSets, TLC

(***************************************************************************)
(* Python string methods used by main.py                                   *)
(***************************************************************************)

At(s, i) == SubSeq(s, i, i)

Whitespace == {" ", "\n", "\t", "\r"}

LineBreaks == {"\n", "\r"}

UpperLetters == "ABCDEFGHIJKLMNOPQRSTUVWXYZ"

LowerLetters == "abcdefghijklmnopqrstuvwxyz"

Digits == "0123456789"

RECURSIVE LStrip(_)
LStrip(s) ==
    IF Len(s) = 0 THEN s
    ELSE IF At(s, 1) \in Whitespace THEN LStrip(SubSeq(s, 2, Len(s)))
    ELSE s

RECURSIVE RStrip(_)
RStrip(s) ==
    IF Len(s) = 0 THEN s
    ELSE IF At(s, Len(s)) \in Whitespace THEN RStrip(SubSeq(s, 1, Len(s) - 1))
    ELSE s

\* str.strip()
Strip(s) == RStrip(LStrip(s))

\* the lower-case form of every upper-case letter
LowerOf ==
    [c \in {At(UpperLetters, i) : i \in 1..Len(UpperLetters)} |->
        At(LowerLetters, CHOOSE i \in 1..Len(UpperLetters) : At(UpperLetters, i) = c)]

LowerChar(c) == IF c \in DOMAIN LowerOf THEN LowerOf[c] ELSE c

\* str.lower()
RECURSIVE Lower(_)
Lower(s) ==
    IF Len(s) = 0 THEN s
    ELSE LowerChar(At(s, 1)) \o Lower(SubSeq(s, 2, Len(s)))

\* s.startswith(p)
StartsWith(s, p) == Len(s) >= Len(p) /\ SubSeq(s, 1, Len(p)) = p

\* p in s
Contains(s, p) ==
    \E i \in 0..(Len(s) - Len(p)) : SubSeq(s, i + 1, i + Len(p)) = p

\* position of the first occurrence of the character c in s, 0 when absent
FindChar(s, c) ==
    IF \E i \in 1..Len(s) : At(s, i) = c
    THEN CHOOSE i \in 1..Len(s) : At(s, i) = c /\ \A j \in 1..(i - 1) : At(s, j) # c
    ELSE 0

\* position of the last occurrence of the character c in s, 0 when absent
RFindChar(s, c) ==
    IF \E i \in 1..Len(s) : At(s, i) = c
    THEN CHOOSE i \in 1..Len(s) : At(s, i) = c /\ \A j \in (i + 1)..Len(s) : At(s, j) # c
    ELSE 0

\* s.split(sep) for a one-character separator
RECURSIVE Split(_, _)
Split(s, sep) ==
    LET p == FindChar(s, sep)
    IN  IF p = 0 THEN <<s>>
        ELSE <<SubSeq(s, 1, p - 1)>> \o Split(SubSeq(s, p + 1, Len(s)), sep)

\* s.split(sep, 1)
Split1(s, sep) ==
    LET p == FindChar(s, sep)
    IN  IF p = 0 THEN <<s>>
        ELSE <<SubSeq(s, 1, p - 1), SubSeq(s, p + 1, Len(s))>>

\* length of the line break at position i of s ("\r\n" counts as one)
BreakLen(s, i) ==
    IF At(s, i) = "\r" /\ i < Len(s) /\ At(s, i + 1) = "\n" THEN 2 ELSE 1

\* s.splitlines()
RECURSIVE SplitLines(_)
SplitLines(s) ==
    IF Len(s) = 0 THEN <<>>
    ELSE IF \E i \in 1..Len(s) : At(s, i) \in LineBreaks
    THEN LET p == CHOOSE i \in 1..Len(s) :
                      /\ At(s, i) \in LineBreaks
                      /\ \A j \in 1..(i - 1) : At(s, j) \notin LineBreaks
         IN  <<SubSeq(s, 1, p - 1)>>
                 \o SplitLines(SubSeq(s, p + BreakLen(s, p), Len(s)))
    ELSE <<s>>

\* s.split() : the maximal runs of non-whitespace characters
RECURSIVE SplitWS(_)
SplitWS(s) ==
    LET t == LStrip(s)
    IN  IF Len(t) = 0 THEN <<>>
        ELSE IF \E i \in 1..Len(t) : At(t, i) \in Whitespace
        THEN LET p == CHOOSE i \in 1..Len(t) :
                          /\ At(t, i) \in Whitespace
                          /\ \A j \in 1..(i - 1) : At(t, j) \notin Whitespace
             IN  <<SubSeq(t, 1, p - 1)>> \o SplitWS(SubSeq(t, p + 1, Len(t)))
        ELSE <<t>>

\* sep.join(parts)
RECURSIVE Join(_, _)
Join(parts, sep) ==
    IF Len(parts) = 0 THEN ""
    ELSE IF Len(parts) = 1 THEN parts[1]
    ELSE parts[1] \o sep \o Join(Tail(parts), sep)

\* str(n) for n >= 0
RECURSIVE IntToStr(_)
IntToStr(n) ==
    IF n < 10 THEN At(Digits, n + 1)
    ELSE IntToStr(n \div 10) \o At(Digits, (n % 10) + 1)

\* os.path.basename(p)
Basename(p) == SubSeq(p, RFindChar(p, "/") + 1, Len(p))

\* os.path.splitext(p)[0] : the last dot starts the extension unless only dots
\* precede it in the file name
SplitextRoot(p) ==
    LET sep == RFindChar(p, "/")
        dot == RFindChar(p, ".")
    IN  IF dot > sep /\ \E k \in (sep + 1)..(dot - 1) : At(p, k) # "."
        THEN SubSeq(p, 1, dot - 1)
        ELSE p

\* the keys of a dict built by inserting ks in order: a repeated key keeps its
\* first position
RECURSIVE DictKeys(_)
DictKeys(ks) ==
    IF Len(ks) = 0 THEN <<>>
    ELSE LET init == DictKeys(SubSeq(ks, 1, Len(ks) - 1))
             k    == ks[Len(ks)]
         IN  IF \E i \in 1..Len(init) : init[i] = k THEN init ELSE Append(init, k)

(***************************************************************************)
(* Tool registry and selection                                             *)
(***************************************************************************)

allowed_tools == <<"nmap", "whatweb", "wafwoof", "ffuf", "nikto">>

\* the keys of the commands dict, in declaration order
commands == <<"Nmap", "Whatweb", "Wafwoof", "Ffuf", "Nikto">>

SeqToSet(q) == {q[i] : i \in 1..Len(q)}

MapSeq(q, Op(_)) == [i \in 1..Len(q) |-> Op(q[i])]

\* [tool.strip().lower() for tool in tools.split(",")]
selected_tools(t) == LET norm(x) == Lower(Strip(x)) IN MapSeq(Split(t, ","), norm)

allowed_lower == MapSeq(allowed_tools, Lower)

\* [tool for tool in selected_tools if tool not in allowed_lower]
invalid_tools(t) ==
    LET bad(x) == x \notin SeqToSet(allowed_lower) IN SelectSeq(selected_tools(t), bad)

\* key_map[tool] : the commands key whose lower-case form is tool
key_map(tool) == CHOOSE k \in SeqToSet(commands) : Lower(k) = tool

\* filterCommands as a plausible bug would have it: only the first invalid
\* name is reported
filterCommands_firstInvalid(t) ==
    IF t = "all" THEN [exit |-> FALSE, invalid |-> <<>>, keys |-> commands]
    ELSE IF Len(invalid_tools(t)) > 0
    THEN [exit |-> TRUE, invalid |-> <<invalid_tools(t)[1]>>, keys |-> <<>>]
    ELSE [exit |-> FALSE, invalid |-> <<>>,
          keys |-> DictKeys(MapSeq(selected_tools(t), key_map))]

\* filterCommands as a plausible bug would have it: the subset is returned in
\* the registry's declared order
filterCommands_registryOrder(t) ==
    IF t = "all" THEN [exit |-> FALSE, invalid |-> <<>>, keys |-> commands]
    ELSE IF Len(invalid_tools(t)) > 0
    THEN [exit |-> TRUE, invalid |-> invalid_tools(t), keys |-> <<>>]
    ELSE LET chosen(k) == Lower(k) \in SeqToSet(selected_tools(t))
         IN  [exit |-> FALSE, invalid |-> <<>>, keys |-> SelectSeq(commands, chosen)]

\* filterCommands(): exit is sys.exit(1) after logging the invalid names,
\* keys are the keys of the returned dict in iteration order
filterCommands(t) ==
    IF t = "all" THEN [exit |-> FALSE, invalid |-> <<>>, keys |-> commands]
    ELSE IF Len(invalid_tools(t)) > 0
    THEN [exit |-> TRUE, invalid |-> invalid_tools(t), keys |-> <<>>]
    ELSE [exit |-> FALSE, invalid |-> <<>>,
          keys |-> DictKeys(MapSeq(selected_tools(t), key_map))]

(***************************************************************************)
(* Exit-code check and per-tool output cleaning                            *)
(***************************************************************************)

\* the Nikto special case of log_checking_codes
NiktoValidOutput(output) ==
    Contains(output, "Nikto v")
        /\ (Contains(output, "+ Target") \/ Contains(output, "+ Server:"))

log_checking_codes(tool_name, returncode, raw) ==
    LET output == Strip(raw)
    IN  IF returncode # 0
        THEN IF tool_name = "Nikto"
             THEN IF NiktoValidOutput(output) THEN output ELSE "Error: " \o output
             ELSE "Error: " \o output
        ELSE output

Returned(text) == [raised |-> FALSE, output |-> text]

\* an uncaught exception; output keeps the value it had before the branch
Raised(text) == [raised |-> TRUE, output |-> text]

WafVerdict(line) == Contains(line, "No WAF detected") \/ Contains(line, "is behind")

\* the Wafwoof branch as a plausible bug would have it: without a verdict line
\* the leading line is dropped
CleanWafwoof_dropHeader(output) ==
    LET lines == SplitLines(output)
    IN  IF \E i \in 1..Len(lines) : WafVerdict(lines[i])
        THEN lines[CHOOSE i \in 1..Len(lines) :
                       WafVerdict(lines[i]) /\ \A j \in 1..(i - 1) : ~WafVerdict(lines[j])]
        ELSE Join(SubSeq(lines, 2, Len(lines)), "\n")

\* the Wafwoof branch: the first line holding a verdict marker, else unchanged
CleanWafwoof(output) ==
    LET lines == SplitLines(output)
    IN  IF \E i \in 1..Len(lines) : WafVerdict(lines[i])
        THEN lines[CHOOSE i \in 1..Len(lines) :
                       WafVerdict(lines[i]) /\ \A j \in 1..(i - 1) : ~WafVerdict(lines[j])]
        ELSE output

\* the Whatweb branch: output.split(" ", 1)[1], IndexError without a space
CleanWhatweb(output) ==
    LET parts == Split1(output, " ")
    IN  IF Len(parts) < 2 THEN Raised(output) ELSE Returned(parts[2])

NmapBanner(line) ==
    \/ StartsWith(line, "Starting Nmap")
    \/ StartsWith(line, "Nmap scan report for")
    \/ StartsWith(line, "Host is up")
    \/ StartsWith(line, "Service detection performed.")
    \/ StartsWith(line, "Nmap done:")

\* the Nmap branch
CleanNmap(output) ==
    LET keep(line) == ~NmapBanner(line)
    IN  Strip(Join(SelectSeq(SplitLines(output), keep), "\n"))

\* next((p for p in parts if p.startswith("/")), None), <<>> for None
NiktoPath(line) ==
    LET isPath(p) == StartsWith(p, "/")
        paths == SelectSeq(SplitWS(line), isPath)
    IN  IF Len(paths) = 0 THEN <<>> ELSE <<paths[1]>>

\* the dedup key as a plausible bug would have it: the extension is kept
NiktoBasename_keepExt(path) == Basename(path)

\* os.path.splitext(os.path.basename(path))[0]
NiktoBasename(path) == SplitextRoot(Basename(path))

\* the loop of the Nikto branch from line i on; the result is filtered_lines
RECURSIVE NiktoLoop(_, _, _, _)
NiktoLoop(lines, i, seen_paths, filtered_lines) ==
    IF i > Len(lines) THEN filtered_lines
    ELSE LET line == lines[i]
             path == NiktoPath(line)
         IN  IF ~StartsWith(line, "+") \/ StartsWith(line, "+-")
             THEN NiktoLoop(lines, i + 1, seen_paths, filtered_lines)
             ELSE IF path # <<>>
             THEN IF NiktoBasename(path[1]) \in seen_paths
                  THEN NiktoLoop(lines, i + 1, seen_paths, filtered_lines)
                  ELSE NiktoLoop(lines, i + 1, seen_paths \cup {NiktoBasename(path[1])},
                                 Append(filtered_lines, Strip(line)))
             ELSE NiktoLoop(lines, i + 1, seen_paths, Append(filtered_lines, Strip(line)))

\* the Nikto branch
CleanNikto(output) == Join(NiktoLoop(SplitLines(output), 1, {}, <<>>), "\n")

(***************************************************************************)
(* Content discovery: the structured results file and the wildcard probe   *)
(***************************************************************************)

\* Python's None; an optional value v is <<v>>
None == <<>>

\* get_ffuf_results(): open() raises when the file is absent, json.load when
\* it is malformed; otherwise data.get("results", [])
get_ffuf_results(file) ==
    IF file.kind # "object" THEN [raised |-> TRUE, results |-> <<>>]
    ELSE [raised |-> FALSE,
          results |-> IF file.has_results THEN file.results ELSE <<>>]

\* filter_by_length(ffuf_results, wildcard_length)
filter_by_length(ffuf_results, wildcard_len) ==
    LET keep(r) == <<r.length>> # wildcard_len IN SelectSeq(ffuf_results, keep)

\* the line the Ffuf branch formats for one finding
FfufLine(r) ==
    r.input.FUZZ \o " [Status: " \o IntToStr(r.status)
        \o ", Size: " \o IntToStr(r.length)
        \o ", Words: " \o IntToStr(r.words)
        \o ", Lines: " \o IntToStr(r.lines)
        \o ", Words: " \o IntToStr(r.words) \o "]"

\* the Ffuf branch; probe is what get_wildcard_length() returns
CleanFfuf(output, file, probe) ==
    LET got == get_ffuf_results(file)
    IN  IF got.raised THEN Raised(output)
        ELSE IF probe # None
        THEN Returned(Join(MapSeq(filter_by_length(got.results, probe), FfufLine), "\n"))
        ELSE Returned(output)

\* the "Clean outputs" chain of the tool loop
CleanOutput(tool_name, output, file, probe) ==
    IF tool_name = "Wafwoof" THEN Returned(CleanWafwoof(output))
    ELSE IF tool_name = "Whatweb" THEN CleanWhatweb(output)
    ELSE IF tool_name = "Nmap" THEN Returned(CleanNmap(output))
    ELSE IF tool_name = "Ffuf" THEN CleanFfuf(output, file, probe)
    ELSE IF tool_name = "Nikto" THEN Returned(CleanNikto(output))
    ELSE Returned(output)

\* results.append as a plausible bug would have it: the record is put first
results_prepend(rs, tool_name, out) ==
    <<[Tool |-> tool_name, Result |-> Strip(out)]>> \o rs

\* results.append({"Tool": tool_name, "Result": output.strip()})
results_append(rs, tool_name, out) ==
    Append(rs, [Tool |-> tool_name, Result |-> Strip(out)])

(***************************************************************************)
(* Bounds and input pools                                                  *)
(***************************************************************************)

\* most names in a tool-selection string
MaxSel == 2

\* most lines in a captured output fed to one cleaning rule
MaxLines == 3

\* most findings in the structured results file
MaxFindings == 2

SeqsUpTo(S, n) == UNION {[1..k -> S] : k \in 0..n}

SelectionNames == {"nmap", "NIKTO", " Whatweb", "wafwoof", "Ffuf ", "foo", "ALL", ""}

Selections ==
    {"all"} \cup {Join(q, ",") : q \in (SeqsUpTo(SelectionNames, MaxSel) \ {<<>>})}

ExitCodes == {0, 1}

\* captured outputs the tools hand to the tool loop
LoopOutputs(tool_name) ==
    IF tool_name = "Nmap"
    THEN {"Starting Nmap 7.94\n80/tcp open http\nNmap done: 1 IP address", ""}
    ELSE IF tool_name = "Whatweb"
    THEN {"http://x.com WhatWeb output", "WhatWeb"}
    ELSE IF tool_name = "Wafwoof"
    THEN {"[*] Checking http://x.com\n[+] example.com is behind CloudFront",
          "[-] timed out"}
    ELSE IF tool_name = "Ffuf"
    THEN {":: Progress: [2/2] ::"}
    ELSE {"- Nikto v2.5.0\n+ Target IP: 10.0.0.1\n+ /admin/config.php: found\n+ /admin/config.bak: found",
          "connection refused"}

Finding(name, len) ==
    [input |-> [FUZZ |-> name], status |-> 200, length |-> len, words |-> 12, lines |-> 3]

FindingPool == {Finding("admin", 1234), Finding("login", 987), Finding("index", 1234)}

NoFile == [kind |-> "absent", has_results |-> FALSE, results |-> <<>>]

BadFile == [kind |-> "malformed", has_results |-> FALSE, results |-> <<>>]

ObjectFile(has, rs) == [kind |-> "object", has_results |-> has, results |-> rs]

\* what ./outputs/ffuf_result.json holds once the ffuf process has ended
LoopFfufFiles ==
    {NoFile, BadFile, ObjectFile(FALSE, <<>>),
     ObjectFile(TRUE, <<Finding("admin", 1234), Finding("login", 987)>>)}

\* what get_wildcard_length() can return: None when requests.get raises
WildcardOutcomes == {None, <<1234>>, <<987>>}

(***************************************************************************)
(* State                                                                   *)
(***************************************************************************)

VARIABLES
    tools,            \* args.tool, the tool-selection string
    pc,               \* position of the main flow
    filtered,         \* keys of filterCommands(), in iteration order
    idx,              \* position of the tool loop in filtered
    result,           \* the CompletedProcess of the last subprocess.run
    output,           \* the module-level output variable
    results,          \* the results list
    exit_code,        \* exit status of the process, None while it runs
    invalid_logged,   \* the names of the "Invalid tool(s) specified" log line
    spawned,          \* tools whose command subprocess.run has started
    ffuf_file,        \* content of ./outputs/ffuf_result.json
    wildcard_length,  \* the module-level wildcard_length variable
    stop_running,     \* spinner.stop_running
    thread,           \* position of the spinner thread in _spin
    spin_i,           \* i % len(self.spinner) in _spin
    status_line       \* the last text a spinner wrote to stdout

vars == <<tools, pc, filtered, idx, result, output, results, exit_code,
          invalid_logged, spawned, ffuf_file, wildcard_length, stop_running,
          thread, spin_i, status_line>>

mainVars == <<tools, pc, filtered, idx, result, output, results, exit_code,
              invalid_logged, spawned, ffuf_file, wildcard_length>>

SpinnerFrames == "|/-\\"

Message(tool_name) == "Running " \o tool_name

RECURSIVE Blanks(_)
Blanks(n) == IF n = 0 THEN "" ELSE " " \o Blanks(n - 1)

\* what _spin writes
FrameLine(tool_name, i) == "\r" \o Message(tool_name) \o " " \o At(SpinnerFrames, i + 1)

\* what stop() writes
ClearLine(tool_name) == "\r" \o Blanks(Len(Message(tool_name)) + 2) \o "\r"

Init ==
    /\ tools \in Selections
    /\ pc = "start"
    /\ filtered = <<>>
    /\ idx = 1
    /\ result = [returncode |-> 0, stdout |-> ""]
    /\ output = ""
    /\ results = <<>>
    /\ exit_code = None
    /\ invalid_logged = <<>>
    /\ spawned = <<>>
    /\ ffuf_file = NoFile
    /\ wildcard_length = None
    /\ stop_running = FALSE
    /\ thread = "none"
    /\ spin_i = 0
    /\ status_line = ""

(***************************************************************************)
(* Main flow                                                               *)
(***************************************************************************)

\* the for statement evaluates filterCommands() once
SelectTools ==
    /\ pc = "start"
    /\ LET sel == filterCommands(tools)
       IN  IF sel.exit
           THEN /\ invalid_logged' = sel.invalid
                /\ exit_code' = <<1>>
                /\ pc' = "exit1"
                /\ UNCHANGED filtered
           ELSE /\ filtered' = sel.keys
                /\ pc' = "loop"
                /\ UNCHANGED <<invalid_logged, exit_code>>
    /\ UNCHANGED <<tools, idx, result, output, results, spawned, ffuf_file,
                   wildcard_length, stop_running, thread, spin_i, status_line>>

\* next tool: spinner = Spinner(...); spinner.start()
Spinner_start ==
    /\ pc = "loop"
    /\ idx <= Len(filtered)
    /\ stop_running' = FALSE
    /\ thread' = "check"
    /\ spin_i' = 0
    /\ pc' = "run"
    /\ UNCHANGED <<tools, filtered, idx, result, output, results, exit_code,
                   invalid_logged, spawned, ffuf_file, wildcard_length, status_line>>

\* subprocess.run(cmd, ...) returns when the child has ended
SubprocessRun ==
    /\ pc = "run"
    /\ \E rc \in ExitCodes, text \in LoopOutputs(filtered[idx]) :
           result' = [returncode |-> rc, stdout |-> text]
    /\ IF filtered[idx] = "Ffuf"
       THEN ffuf_file' \in LoopFfufFiles
       ELSE ffuf_file' = ffuf_file
    /\ spawned' = Append(spawned, filtered[idx])
    /\ pc' = "stop"
    /\ UNCHANGED <<tools, filtered, idx, output, results, exit_code, invalid_logged,
                   wildcard_length, stop_running, thread, spin_i, status_line>>

\* spinner.stop(): self.stop_running = True
Spinner_stop ==
    /\ pc = "stop"
    /\ stop_running' = TRUE
    /\ pc' = "join"
    /\ UNCHANGED <<tools, filtered, idx, result, output, results, exit_code,
                   invalid_logged, spawned, ffuf_file, wildcard_length, thread,
                   spin_i, status_line>>

\* spinner.stop() as a plausible bug would have it: the thread is not joined
Spinner_join_noWait ==
    /\ pc = "join"
    /\ status_line' = ClearLine(filtered[idx])
    /\ pc' = "clean"
    /\ UNCHANGED <<tools, filtered, idx, result, output, results, exit_code,
                   invalid_logged, spawned, ffuf_file, wildcard_length,
                   stop_running, thread, spin_i>>

\* spinner.stop(): self.thread.join(), then the status line is blanked
Spinner_join ==
    /\ pc = "join"
    /\ thread = "dead"
    /\ status_line' = ClearLine(filtered[idx])
    /\ pc' = "clean"
    /\ UNCHANGED <<tools, filtered, idx, result, output, results, exit_code,
                   invalid_logged, spawned, ffuf_file, wildcard_length,
                   stop_running, thread, spin_i>>

\* output = log_checking_codes(...), the cleaning branch, results.append;
\* an exception of the branch ends the process with a traceback and status 1
Clean ==
    /\ pc = "clean"
    /\ LET tool_name == filtered[idx]
           checked   == log_checking_codes(tool_name, result.returncode, result.stdout)
       IN  \E probe \in (IF tool_name = "Ffuf" THEN WildcardOutcomes ELSE {wildcard_length}) :
               LET cleaned == CleanOutput(tool_name, checked, ffuf_file, probe)
               IN  /\ output' = cleaned.output
                   /\ wildcard_length' =
                          IF tool_name = "Ffuf" /\ ~get_ffuf_results(ffuf_file).raised
                          THEN probe ELSE wildcard_length
                   /\ IF cleaned.raised
                      THEN /\ pc' = "crashed"
                           /\ exit_code' = <<1>>
                           /\ UNCHANGED <<results, idx>>
                      ELSE /\ results' = results_append(results, tool_name, cleaned.output)
                           /\ idx' = idx + 1
                           /\ pc' = "loop"
                           /\ UNCHANGED exit_code
    /\ UNCHANGED <<tools, filtered, result, invalid_logged, spawned, ffuf_file,
                   stop_running, thread, spin_i, status_line>>

\* the loop is exhausted: the report is written and the script ends
Finish ==
    /\ pc = "loop"
    /\ idx > Len(filtered)
    /\ pc' = "done"
    /\ exit_code' = <<0>>
    /\ UNCHANGED <<tools, filtered, idx, result, output, results, invalid_logged,
                   spawned, ffuf_file, wildcard_length, stop_running, thread,
                   spin_i, status_line>>

(***************************************************************************)
(* Spinner thread: _spin                                                   *)
(***************************************************************************)

\* while not self.stop_running
Spin_check ==
    /\ thread = "check"
    /\ thread' = IF stop_running THEN "dead" ELSE "write"
    /\ UNCHANGED <<mainVars, stop_running, spin_i, status_line>>

\* sys.stdout.write(...); sys.stdout.flush()
Spin_write ==
    /\ thread = "write"
    /\ status_line' = FrameLine(filtered[idx], spin_i)
    /\ thread' = "sleep"
    /\ UNCHANGED <<mainVars, stop_running, spin_i>>

\* time.sleep(0.1); i += 1
Spin_sleep ==
    /\ thread = "sleep"
    /\ spin_i' = (spin_i + 1) % Len(SpinnerFrames)
    /\ thread' = "check"
    /\ UNCHANGED <<mainVars, stop_running, status_line>>

Next ==
    \/ SelectTools
    \/ Spinner_start
    \/ SubprocessRun
    \/ Spinner_stop
    \/ Spinner_join
    \/ Clean
    \/ Finish
    \/ Spin_check
    \/ Spin_write
    \/ Spin_sleep

Spec == Init /\ [][Next]_vars

(***************************************************************************)
(* The cleaning step on its own: one tool whose process has ended and      *)
(* whose spinner is stopped, over larger pools of captured text.  The      *)
(* recorded text can be fed back once as a fresh successful outcome.       *)
(***************************************************************************)

NormLines(tool_name) ==
    IF tool_name = "Nmap"
    THEN {"Starting Nmap 7.94", "Nmap done: 1 IP address", "  Host is up (0.01s latency).",
          "80/tcp open http", "PORT STATE SERVICE", ""}
    ELSE IF tool_name = "Whatweb"
    THEN {"http://x.com WhatWeb output", "http://x.com", "[200 OK] Apache", ""}
    ELSE IF tool_name = "Wafwoof"
    THEN {"[*] Checking http://x.com", "[+] example.com is behind CloudFront",
          "  [+] No WAF detected by the generic detection ", "[~] requests: 7", ""}
    ELSE IF tool_name = "Nikto"
    THEN {"- Nikto v2.5.0", "+ Target IP: 10.0.0.1", "+ /admin/config.php: found",
          "+ /admin/config.bak: found ", "+ /backup/config.php: found", "+ /login.php: found",
          "+-----------", "+ 3 items reported"}
    ELSE {":: Progress: [2/2] ::", ""}

NormTexts(tool_name) ==
    {Join(q, "\n") : q \in SeqsUpTo(NormLines(tool_name), MaxLines)}

NormFfufFiles ==
    {NoFile, BadFile, ObjectFile(FALSE, <<>>)}
        \cup {ObjectFile(TRUE, rs) : rs \in SeqsUpTo(FindingPool, MaxFindings)}

InitNorm ==
    /\ \E tool_name \in SeqToSet(commands) :
           /\ tools = tool_name
           /\ filtered = <<tool_name>>
           /\ spawned = <<tool_name>>
           /\ \E rc \in ExitCodes, text \in NormTexts(tool_name) :
                  result = [returncode |-> rc, stdout |-> text]
           /\ IF tool_name = "Ffuf" THEN ffuf_file \in NormFfufFiles ELSE ffuf_file = NoFile
           /\ status_line = ClearLine(tool_name)
    /\ pc = "clean"
    /\ idx = 1
    /\ output = ""
    /\ results = <<>>
    /\ exit_code = None
    /\ invalid_logged = <<>>
    /\ wildcard_length = None
    /\ stop_running = TRUE
    /\ thread = "dead"
    /\ spin_i = 0

RuleTools == {"Whatweb", "Wafwoof", "Nmap"}

\* the recorded text of the first pass becomes the captured output of a
\* second, successful, outcome of the same tool
Renormalize ==
    /\ pc = "loop"
    /\ Len(results) = 1
    /\ filtered[1] \in RuleTools
    /\ result' = [returncode |-> 0, stdout |-> results[1].Result]
    /\ idx' = 1
    /\ pc' = "clean"
    /\ UNCHANGED <<tools, filtered, output, results, exit_code, invalid_logged,
                   spawned, ffuf_file, wildcard_length, stop_running, thread,
                   spin_i, status_line>>

NextNorm == Clean \/ Renormalize

SpecNorm == InitNorm /\ [][NextNorm]_vars

(***************************************************************************)
(* Properties                                                              *)
(***************************************************************************)

\* the names of the selection string, trimmed and lower-cased
RequestedNames == LET norm(x) == Lower(Strip(x)) IN MapSeq(Split(tools, ","), norm)

IsRegistryName(n) == \E i \in 1..Len(allowed_tools) : allowed_tools[i] = n

AllRegistryNames(names) ==
    tools # "all" /\ \A i \in 1..Len(names) : IsRegistryName(names[i])

HasUnknownName(names) ==
    tools # "all" /\ \E i \in 1..Len(names) : ~IsRegistryName(names[i])

\* the tools the caller asked for
RequestedKeys(names) ==
    IF tools = "all" THEN SeqToSet(commands)
    ELSE {k \in SeqToSet(commands) : \E i \in 1..Len(names) : names[i] = Lower(k)}

\* where the caller first names the tool k (its registry position for "all")
RequestPos(names, k) ==
    IF tools = "all"
    THEN CHOOSE i \in 1..Len(commands) : commands[i] = k
    ELSE CHOOSE i \in 1..Len(names) :
             names[i] = Lower(k) /\ \A j \in 1..(i - 1) : names[j] # Lower(k)

\* q lists exactly the requested tools, once each, in the order of request
InRequestOrder(q, names) ==
    /\ SeqToSet(q) = RequestedKeys(names)
    /\ Len(q) = Cardinality(RequestedKeys(names))
    /\ \A i, j \in 1..Len(q) : i < j => RequestPos(names, q[i]) < RequestPos(names, q[j])

ResultTools == [i \in 1..Len(results) |-> results[i].Tool]

\* the last recorded result belongs to the outcome held in result
LastRecorded == Len(results) > 0 /\ Len(results) = Len(spawned)

LastResult == results[Len(results)]

\* the exit is nonzero and the Nikto special case does not apply
FailedOutcome ==
    /\ result.returncode # 0
    /\ ~(LastResult.Tool = "Nikto" /\ NiktoValidOutput(Strip(result.stdout)))

\* C1: once the tool loop has ended, the results list holds exactly one record
\* per selected tool, in selection order (registry order for "all"), without
\* duplicates or omissions, whatever the exit codes and outputs were.
C1_OneRecordPerSelectedTool ==
    pc = "done" => InRequestOrder(ResultTools, RequestedNames)

\* a run of two tools or more has ended and a failed tool has its record
C1_Witness ==
    /\ pc = "done"
    /\ Len(results) >= 2
    /\ \E i \in 1..Len(results) : StartsWith(results[i].Result, "Error:")

\* C2: a selection with a name that matches no registry identifier ends the
\* process with status 1, every offending name is reported, and nothing has
\* been dispatched or recorded.
C2_UnknownToolIsFatal ==
    pc # "start" =>
        LET names == RequestedNames
        IN  HasUnknownName(names) =>
                /\ pc = "exit1"
                /\ exit_code = <<1>>
                /\ spawned = <<>>
                /\ results = <<>>
                /\ thread = "none"
                /\ \A i \in 1..Len(names) :
                       ~IsRegistryName(names[i]) =>
                           \E j \in 1..Len(invalid_logged) : invalid_logged[j] = names[i]
                /\ \A j \in 1..Len(invalid_logged) : ~IsRegistryName(invalid_logged[j])

\* the selection failed on two different unknown names
C2_Witness ==
    /\ pc = "exit1"
    /\ \E i, j \in 1..Len(invalid_logged) : invalid_logged[i] # invalid_logged[j]

\* C3: for a selection made only of registry names in any letter case,
\* filterCommands returns a subset of the registry in the caller's order;
\* for "all" it returns every registered tool in registry order.
C3_SelectionKeepsCallerOrder ==
    pc # "start" =>
        LET names == RequestedNames
        IN  /\ AllRegistryNames(names) =>
                   /\ SeqToSet(filtered) \subseteq SeqToSet(commands)
                   /\ InRequestOrder(filtered, names)
            /\ tools = "all" => filtered = commands

\* an explicit subset was returned in an order that is not the registry's
C3_Witness ==
    /\ pc = "loop"
    /\ tools # "all"
    /\ Len(filtered) = 2
    /\ filtered[1] = "Nikto"
    /\ filtered[2] = "Nmap"

\* C4: only an unknown tool name aborts the run: the cleaning step never
\* raises and the process ends with status 0 unless a name was unknown.
C4_OnlyUnknownToolAborts ==
    /\ pc # "crashed"
    /\ exit_code # None => (exit_code = <<1>> <=> HasUnknownName(RequestedNames))

\* C5: a tool that exits nonzero (outside the Nikto special case) is recorded
\* as an error payload that holds the raw captured output, and the loop goes
\* on.
C5_FailureKeepsErrorPayload ==
    /\ (LastRecorded /\ FailedOutcome) =>
           /\ StartsWith(LastResult.Result, "Error:")
           /\ Contains(LastResult.Result, Strip(result.stdout))
    /\ pc = "crashed" => result.returncode = 0

\* the findings of the structured file, <<>> when it has no results key
ParsedFindings == IF ffuf_file.has_results THEN ffuf_file.results ELSE <<>>

\* the findings that content discovery is to keep for the probe outcome
ExpectedFindings ==
    IF wildcard_length = None THEN ParsedFindings
    ELSE LET differs(r) == r.length # wildcard_length[1]
         IN  SelectSeq(ParsedFindings, differs)

\* C6: content discovery keeps exactly the findings whose length differs
\* from the baseline, in order, and keeps every finding when the probe gave
\* no baseline.
C6_WildcardFilterFailsOpen ==
    (LastRecorded /\ LastResult.Tool = "Ffuf" /\ result.returncode = 0) =>
        LastResult.Result = Strip(Join(MapSeq(ExpectedFindings, FfufLine), "\n"))

\* C7: an absent or malformed structured file does not abort the scan.
C7_MissingFileIsNotFatal ==
    pc = "crashed" => ~(filtered[idx] = "Ffuf" /\ ffuf_file.kind # "object")

SecondPassDone == Len(results) = 2

SecondPassRaised == pc = "crashed" /\ Len(results) = 1

\* C8 as stated: for the fingerprint, WAF-detect and service-scan rules a
\* second pass over the recorded text returns it unchanged.
C8_AllRulesIdempotent ==
    /\ SecondPassDone => results[2].Result = results[1].Result
    /\ ~SecondPassRaised

FirstLine(text) == IF Len(SplitLines(text)) = 0 THEN "" ELSE SplitLines(text)[1]

\* C8 amended: the WAF-detect rule is idempotent, and the service-scan rule
\* is idempotent whenever the recorded text does not begin with one of the
\* banner prefixes.
C8_WafAndNmapIdempotent ==
    /\ (SecondPassDone /\ filtered[1] = "Wafwoof") =>
           results[2].Result = results[1].Result
    /\ (SecondPassDone /\ filtered[1] = "Nmap" /\ ~NmapBanner(FirstLine(results[1].Result))) =>
           results[2].Result = results[1].Result

\* a verdict line picked from a longer output has gone through a second pass
C8_Witness ==
    /\ SecondPassDone
    /\ filtered[1] = "Wafwoof"
    /\ Contains(results[2].Result, "is behind")
    /\ ~Contains(results[2].Result, "Checking")

\* the members of the set of numbers K, in ascending order
RECURSIVE Ascending(_)
Ascending(K) ==
    IF K = {} THEN <<>>
    ELSE LET m == CHOOSE x \in K : \A y \in K : x <= y
         IN  <<m>> \o Ascending(K \ {m})

IsFinding(line) == StartsWith(line, "+") /\ ~StartsWith(line, "+-")

NamesPath(line) == NiktoPath(line) # <<>>

\* the extension-stripped base name of the path a finding line names
FindingBase(line) == SplitextRoot(Basename(NiktoPath(line)[1]))

\* line i of lines is a finding, and no earlier finding names a path of its
\* base name
FirstOfItsBase(lines, i) ==
    /\ IsFinding(lines[i])
    /\ NamesPath(lines[i]) =>
           \A j \in 1..(i - 1) :
               (IsFinding(lines[j]) /\ NamesPath(lines[j]))
                   => FindingBase(lines[j]) # FindingBase(lines[i])

\* C9: vuln-scan cleaning keeps the lines that start with "+" and not with
\* "+-", and of those that name a path only the first per extension-stripped
\* base name, in input order.
C9_NiktoDedupByBaseName ==
    (Len(results) = 1 /\ filtered[1] = "Nikto") =>
        LET lines == SplitLines(log_checking_codes("Nikto", result.returncode, result.stdout))
            kept == Ascending({i \in 1..Len(lines) : FirstOfItsBase(lines, i)})
            line(i) == Strip(lines[i])
        IN  results[1].Result = Strip(Join(MapSeq(kept, line), "\n"))

\* config.php and config.bak were both found and only the first is kept
C9_Witness ==
    /\ Len(results) = 1
    /\ filtered[1] = "Nikto"
    /\ Contains(result.stdout, "/admin/config.php")
    /\ Contains(result.stdout, "/admin/config.bak")
    /\ Contains(results[1].Result, "/admin/config.php")
    /\ ~Contains(results[1].Result, "/admin/config.bak")

====
